---- MODULE Spec2Model ----
(***************************************************************************)
(* LUMI: the browser-local mock backend (localStorage / sessionStorage),   *)
(* the CourseViewer progression state machine, the registration form, the  *)
(* debate arena of the social page and the wrappers of the generative AI   *)
(* client.  Each part has its own specification over its own variables;    *)
(* the variables of the other parts stay at their initial values.          *)
(*                                                                         *)
(* Strings the code inspects by prefix (course ids) are sequences of       *)
(* tokens, "lumi-sys-calc-001" being <<"lumi", "sys", "calc-001">>.        *)
(***************************************************************************)
EXTENDS Integers, Sequences, FiniteSets, TLC

VARIABLES
    \* ---- mock backend: localStorage blobs
    dbCourses,        \* STORAGE_KEYS.COURSES: sequence of Course
    dbUsers,          \* STORAGE_KEYS.USERS: username -> UserRecord, over its domain
    dbSessions,       \* STORAGE_KEYS.SESSIONS: token -> username, over its domain
    dbHistory,        \* STORAGE_KEYS.HISTORY: username -> sequence of HistoryRecord
    sessionToken,     \* sessionStorage 'lumi_session_token'
    \* ---- CreateCourse (creator studio)
    view,             \* ViewMode
    editorCourse,     \* the manual editor's course
    editCount,        \* edits made in this editor session (bounds the model)
    clock,            \* Date.now(), as a counter of the ids handed out
    writes,           \* writes to dbCourses so far (bounds the model)
    lastEdit,         \* the last social edit and the likes it found (observer)
    \* ---- AuthPage
    isLogin, loading, error, formData,
    authPc,           \* where the running handleSubmit stands
    submitFlip,       \* flips at every handleSubmit (observer)
    onLoginCalls,     \* the users onLogin was called with (observer)
    loginResult,      \* what the last loginUser returned (observer)
    \* ---- App and CourseViewer
    user, currentPage, selectedCourse,
    currentLevel, maxUnlockedLevel, currentCard,
    quizQuestions, quizLoading, quizAnswers, quizSubmitted, quizScore,
    applicationText, deepDiveText, insightLoading, pendingFetch,
    unlockTrail,      \* the levels this CourseViewer unlocked, in order (observer)
    \* ---- SocialPage debate arena
    battleState, battleConfig, opponents, timeLeft, currentQuestion, answers,
    matchTimers,      \* pending setTimeout callbacks of startMatchmaking
    questionCalls,    \* pending generateBattleRound calls of startRound
    judgeCalls,       \* running submitStandardAnswer calls
    roundNo,          \* the rounds started so far (observer)
    lastJudged,       \* the round whose judgement set the results (observer)
    matchPlayers,     \* playerCount of the matchmaking that picked opponents (observer)
    \* ---- generative AI wrappers
    genCall, genResult,
    \* ---- history store called directly
    historyCalls,     \* addToHistory calls made so far (bounds the model)
    lastHistoryCall   \* the arguments of the last addToHistory call (observer)

storeVars  == <<dbCourses, view, editorCourse, editCount, clock, writes, lastEdit>>
authVars   == <<dbUsers, dbSessions, sessionToken, isLogin, loading, error,
                formData, authPc, submitFlip, onLoginCalls, loginResult>>
viewerVars == <<user, currentPage, selectedCourse, currentLevel, maxUnlockedLevel,
                currentCard, quizQuestions, quizLoading, quizAnswers, quizSubmitted,
                quizScore, applicationText, deepDiveText, insightLoading,
                pendingFetch, unlockTrail, dbHistory>>
battleVars == <<battleState, battleConfig, opponents, timeLeft, currentQuestion,
                answers, matchTimers, questionCalls, judgeCalls, roundNo, lastJudged,
                matchPlayers>>
genVars    == <<genCall, genResult>>
histVars   == <<historyCalls, lastHistoryCall>>
vars       == <<storeVars, authVars, viewerVars, battleVars, genVars, histVars>>

Null == "null"

\* ---- bounds of the model
MaxWrites == 2     \* writes to the stored courses in one behaviour
MaxEdits  == 1     \* edits of one manual editor session

Usernames == {"scholar", "novice"}

\* what the handlers of one part of the application leave alone
StoreOnly == UNCHANGED <<authVars, viewerVars, battleVars, genVars, histVars>>

ViewerOnly == UNCHANGED <<storeVars, authVars, battleVars, genVars, histVars>>

(***************************************************************************)
(* Generic helpers.                                                        *)
(***************************************************************************)
Range(s) == {s[i] : i \in DOMAIN s}

Includes(s, x) == \E i \in DOMAIN s : s[i] = x

Filter(s, Keep(_)) == SelectSeq(s, Keep)

\* Array.prototype.findIndex, 1-based; 0 stands for -1
FindIndex(s, Test(_)) ==
    IF \E i \in DOMAIN s : Test(s[i])
    THEN CHOOSE i \in DOMAIN s : Test(s[i]) /\ \A j \in 1..(i - 1) : ~Test(s[j])
    ELSE 0

\* String.prototype.startsWith over token sequences
StartsWith(s, prefix) ==
    /\ Len(s) >= Len(prefix)
    /\ SubSeq(s, 1, Len(prefix)) = prefix

SysPrefix == <<"lumi", "sys">>

(***************************************************************************)
(* Seed data.                                                              *)
(***************************************************************************)
Card(tag, i) == [front |-> <<tag, "front", i>>, back |-> <<tag, "back", i>>]

Cards(tag, n) == [i \in 1..n |-> Card(tag, i)]

ENGINEERING_FOLDER ==
    << [title |-> "Module 1: Partial Derivatives",           cards |-> Cards("m1", 5)],
       [title |-> "Module 2: Chain Rule (Multivariable)",    cards |-> Cards("m2", 3)],
       [title |-> "Module 3: Extreme Values and Saddle Points", cards |-> Cards("m3", 3)],
       [title |-> "Module 4: Taylor's Series",               cards |-> Cards("m4", 3)] >>

ModuleTag == <<"eng-mod1", "eng-mod2", "eng-mod3", "eng-mod4">>

SeedComment == [author |-> "scholar", text |-> "seed"]

SYSTEM_COURSES ==
    [i \in 1..Len(ENGINEERING_FOLDER) |->
        [id       |-> SysPrefix \o <<ModuleTag[i]>>,
         title    |-> ENGINEERING_FOLDER[i].title,
         content  |-> ENGINEERING_FOLDER[i].cards,
         quiz     |-> <<>>,
         isPublic |-> TRUE,
         likes    |-> <<"scholar", "curator">>,
         comments |-> <<>>]]
    \o
    << [id       |-> SysPrefix \o <<"calc-001">>,
        title    |-> "Calculus: Partial Differentiation",
        content  |-> Cards("calc", 10),
        quiz     |-> <<>>,
        isPublic |-> TRUE,
        likes    |-> <<"scholar", "novice">>,
        comments |-> <<SeedComment>>],
       [id       |-> SysPrefix \o <<"quant-002">>,
        title    |-> "Quantum Physics: Wave Mechanics",
        content  |-> <<>>,
        quiz     |-> <<>>,
        isPublic |-> TRUE,
        likes    |-> <<"curator">>,
        comments |-> <<>>] >>

SystemIds == {SYSTEM_COURSES[i].id : i \in DOMAIN SYSTEM_COURSES}

(***************************************************************************)
(* Content operations of the mock backend.                                 *)
(***************************************************************************)
IsUserCourse(c) == ~StartsWith(c.id, SysPrefix)

filteredUserCoursesUnfiltered(userCourses) == userCourses

filteredUserCourses(userCourses) == Filter(userCourses, IsUserCourse)

normalizedSystem ==
    [i \in DOMAIN SYSTEM_COURSES |-> [SYSTEM_COURSES[i] EXCEPT !.isPublic = TRUE]]

getCourses == normalizedSystem \o filteredUserCourses(dbCourses)

IsPublic(c) == c.isPublic

getPublicCourses == Filter(getCourses, IsPublic)

\* saveCourse(course): replace the stored course of that id, or append
saveCourse(courses, course) ==
    LET SameId(c) == c.id = course.id
        index     == FindIndex(courses, SameId)
    IN  IF index > 0 THEN [courses EXCEPT ![index] = course]
        ELSE Append(courses, course)

\* likes after a toggle by username
toggledLikes(likes, username) ==
    LET Other(u) == u # username
    IN  IF Includes(likes, username) THEN Filter(likes, Other)
        ELSE Append(likes, username)

\* toggleLikeCourse(courseId, username): the stored courses afterwards
toggleLikeCourse(courses, courseId, username) ==
    LET SameId(c)   == c.id = courseId
        courseIndex == FindIndex(courses, SameId)
        sysIndex    == FindIndex(SYSTEM_COURSES, SameId)
    IN  IF courseIndex > 0
        THEN [courses EXCEPT ![courseIndex].likes = toggledLikes(@, username)]
        ELSE IF sysIndex > 0
        THEN Append(courses,
                    [SYSTEM_COURSES[sysIndex] EXCEPT !.likes = toggledLikes(@, username)])
        ELSE courses

\* addCommentToCourse(courseId, comment): the stored courses afterwards
addCommentToCourse(courses, courseId, comment) ==
    LET SameId(c)   == c.id = courseId
        courseIndex == FindIndex(courses, SameId)
        sysIndex    == FindIndex(SYSTEM_COURSES, SameId)
    IN  IF courseIndex > 0
        THEN [courses EXCEPT ![courseIndex].comments = <<comment>> \o @]
        ELSE IF sysIndex > 0
        THEN Append(courses,
                    [SYSTEM_COURSES[sysIndex] EXCEPT !.comments = <<comment>> \o @])
        ELSE courses

(***************************************************************************)
(* CreateCourse: the creator studio and its manual editor.                 *)
(***************************************************************************)
BlankEditor == [title |-> "", content |-> <<>>]

EditedText == <<"edited", "text", 0>>

\* `course-${Date.now()}`
NewCourseId == <<"course", "t", clock + 1>>

NoEdit == [kind |-> "none", id |-> <<>>, who |-> Null, wasLiked |-> FALSE]

InitStore ==
    /\ dbCourses = <<>>
    /\ view = "unmounted"
    /\ editorCourse = BlankEditor
    /\ editCount = 0
    /\ clock = 0
    /\ writes = 0
    /\ lastEdit = NoEdit

\* App.navigateTo(Page.CREATE_COURSE): CreateCourse mounts with its initial state
MountCreateCourse ==
    /\ view = "unmounted"
    /\ view' = "dashboard"
    /\ editorCourse' = BlankEditor
    /\ editCount' = 0
    /\ UNCHANGED <<dbCourses, clock, writes, lastEdit>>
    /\ StoreOnly

\* leaving the page unmounts the component
UnmountCreateCourse ==
    /\ view # "unmounted"
    /\ view' = "unmounted"
    /\ editorCourse' = BlankEditor
    /\ editCount' = 0
    /\ UNCHANGED <<dbCourses, clock, writes, lastEdit>>
    /\ StoreOnly

\* setView('ai-generator') / setView('dashboard')
SetView(v) ==
    /\ view \in {"dashboard", "editor", "ai-generator"}
    /\ v # view
    /\ \/ v = "ai-generator" /\ view = "dashboard"
       \/ v = "dashboard"
    /\ view' = v
    /\ UNCHANGED <<dbCourses, editorCourse, editCount, clock, writes, lastEdit>>
    /\ StoreOnly

handleOpenModule(module) ==
    /\ view = "dashboard"
    /\ editorCourse' = [title |-> module.title, content |-> module.cards]
    /\ view' = "editor"
    /\ editCount' = 0
    /\ UNCHANGED <<dbCourses, clock, writes, lastEdit>>
    /\ StoreOnly

handleEditorChange(value) ==
    /\ view = "editor"
    /\ editCount < MaxEdits
    /\ editorCourse' = [editorCourse EXCEPT !.title = value]
    /\ editCount' = editCount + 1
    /\ UNCHANGED <<dbCourses, view, clock, writes, lastEdit>>
    /\ StoreOnly

handleCardChange(index, field, value) ==
    /\ view = "editor"
    /\ editCount < MaxEdits
    /\ index \in DOMAIN editorCourse.content
    /\ editorCourse' = [editorCourse EXCEPT !.content[index][field] = value]
    /\ editCount' = editCount + 1
    /\ UNCHANGED <<dbCourses, view, clock, writes, lastEdit>>
    /\ StoreOnly

addCard ==
    /\ view = "editor"
    /\ editCount < MaxEdits
    /\ editorCourse' = [editorCourse EXCEPT
                           !.content = Append(@, [front |-> <<"", "", 0>>,
                                                  back  |-> <<"", "", 0>>])]
    /\ editCount' = editCount + 1
    /\ UNCHANGED <<dbCourses, view, clock, writes, lastEdit>>
    /\ StoreOnly

removeCard(index) ==
    /\ view = "editor"
    /\ editCount < MaxEdits
    /\ index \in DOMAIN editorCourse.content
    /\ editorCourse' = [editorCourse EXCEPT
                           !.content = SubSeq(@, 1, index - 1)
                                       \o SubSeq(@, index + 1, Len(@))]
    /\ editCount' = editCount + 1
    /\ UNCHANGED <<dbCourses, view, clock, writes, lastEdit>>
    /\ StoreOnly

\* saveEditorCourse: alert and return without a title or a card; else save and leave
saveEditorCourse ==
    /\ view = "editor"
    /\ editorCourse.title # ""
    /\ Len(editorCourse.content) > 0
    /\ writes < MaxWrites
    /\ writes' = writes + 1
    /\ dbCourses' = saveCourse(dbCourses,
                        [id       |-> NewCourseId,
                         title    |-> editorCourse.title,
                         content  |-> editorCourse.content,
                         quiz     |-> <<>>,
                         isPublic |-> TRUE,
                         likes    |-> <<>>,
                         comments |-> <<>>])
    /\ clock' = clock + 1
    /\ view' = "unmounted"
    /\ editorCourse' = BlankEditor
    /\ editCount' = 0
    /\ lastEdit' = NoEdit
    /\ StoreOnly

\* a quiz as generateCourseContent returns it: the index of each right answer
AIQuiz == <<0, 1>>

\* handleAISubmit once generateCourseContent has answered with content
handleAISubmit(flashcards, quiz) ==
    /\ view = "ai-generator"
    /\ writes < MaxWrites
    /\ writes' = writes + 1
    /\ dbCourses' = saveCourse(dbCourses,
                        [id       |-> NewCourseId,
                         title    |-> "AI course",
                         content  |-> flashcards,
                         quiz     |-> quiz,
                         isPublic |-> TRUE,
                         likes    |-> <<>>,
                         comments |-> <<>>])
    /\ clock' = clock + 1
    /\ view' = "unmounted"
    /\ editorCourse' = BlankEditor
    /\ editCount' = 0
    /\ lastEdit' = NoEdit
    /\ StoreOnly

(***************************************************************************)
(* ProfilePage.submitCustomization and the social page's like and comment. *)
(***************************************************************************)
\* the cards personalizeFlashcards answers with: the fronts kept, the backs rewritten
Rewritten(content) ==
    [i \in DOMAIN content |-> [content[i] EXCEPT !.back = <<"rewritten", "back", i>>]]

\* the courses a page shows whose ids the model lets the user pick
Clickable(courses) ==
    {c \in Range(courses) :
        c.id \in {SysPrefix \o <<"calc-001">>, SysPrefix \o <<"quant-002">>}
        \/ IsUserCourse(c)}

submitCustomization(course) ==
    /\ view = "unmounted"
    /\ writes < MaxWrites
    /\ writes' = writes + 1
    /\ dbCourses' = saveCourse(dbCourses,
                               [course EXCEPT !.content = Rewritten(course.content)])
    /\ lastEdit' = NoEdit
    /\ UNCHANGED <<view, editorCourse, editCount, clock>>
    /\ StoreOnly

LikesOf(courses, courseId) ==
    LET SameId(c) == c.id = courseId
        i == FindIndex(courses, SameId)
    IN  IF i > 0 THEN courses[i].likes ELSE <<>>

CommentsOf(courses, courseId) ==
    LET SameId(c) == c.id = courseId
        i == FindIndex(courses, SameId)
    IN  IF i > 0 THEN courses[i].comments ELSE <<>>

\* SocialPage.handleLike(courseId) by the logged-in user
handleLike(courseId, username) ==
    /\ view = "unmounted"
    /\ writes < MaxWrites
    /\ writes' = writes + 1
    /\ dbCourses' = toggleLikeCourse(dbCourses, courseId, username)
    /\ lastEdit' = [kind |-> "like", id |-> courseId, who |-> username,
                    wasLiked |-> Includes(LikesOf(getPublicCourses, courseId), username)]
    /\ UNCHANGED <<view, editorCourse, editCount, clock>>
    /\ StoreOnly

\* SocialPage.submitComment(courseId) with a non-blank commentText
submitComment(courseId, username) ==
    /\ view = "unmounted"
    /\ writes < MaxWrites
    /\ writes' = writes + 1
    /\ dbCourses' = addCommentToCourse(dbCourses, courseId,
                                       [author |-> username, text |-> "comment"])
    /\ lastEdit' = [kind |-> "comment", id |-> courseId, who |-> username,
                    wasLiked |-> FALSE]
    /\ UNCHANGED <<view, editorCourse, editCount, clock>>
    /\ StoreOnly

NextStore ==
    \/ MountCreateCourse
    \/ UnmountCreateCourse
    \/ \E v \in {"dashboard", "ai-generator"} : SetView(v)
    \/ handleOpenModule(ENGINEERING_FOLDER[2])
    \/ handleEditorChange("edited title")
    \/ handleCardChange(1, "back", EditedText)
    \/ addCard
    \/ removeCard(1)
    \/ saveEditorCourse
    \/ handleAISubmit(Cards("ai", 2), AIQuiz)
    \/ \E c \in Clickable(getCourses) : submitCustomization(c)
    \/ \E c \in Clickable(getPublicCourses) : handleLike(c.id, user)
    \/ \E c \in Clickable(getPublicCourses) : submitComment(c.id, user)

(***************************************************************************)
(* Claims about the stored courses.                                        *)
(***************************************************************************)
SameSeed(c, seed) ==
    /\ c.id = seed.id
    /\ c.title = seed.title
    /\ c.content = seed.content
    /\ c.likes = seed.likes
    /\ c.comments = seed.comments

C2_EditVisibleOnNextRead ==
    /\ lastEdit.kind = "like" =>
          (Includes(LikesOf(getPublicCourses, lastEdit.id), lastEdit.who)
              <=> ~lastEdit.wasLiked)
    /\ lastEdit.kind = "comment" =>
          LET comments == CommentsOf(getPublicCourses, lastEdit.id)
          IN  /\ Len(comments) > 0
              /\ comments[1] = [author |-> lastEdit.who, text |-> "comment"]

\* the same statement for the courses the users created
C2_UserCourseEditVisible ==
    ~StartsWith(lastEdit.id, SysPrefix) => C2_EditVisibleOnNextRead

(***************************************************************************)
(* History of the mock backend.                                            *)
(***************************************************************************)
HistoryCap == 30

\* s.slice(0, n)
SliceTo(s, n) == SubSeq(s, 1, IF Len(s) < n THEN Len(s) ELSE n)

\* addToHistory(username, courseId, action): the history store afterwards
addToHistoryKeepingOld(allHistory, username, courseId, action) ==
    LET unshifted == <<[courseId |-> courseId, action |-> action]>> \o allHistory[username]
    IN  [allHistory EXCEPT ![username] = unshifted]

addToHistory(allHistory, username, courseId, action) ==
    LET Other(h)  == h.courseId # courseId
        filtered  == Filter(allHistory[username], Other)
        unshifted == <<[courseId |-> courseId, action |-> action]>> \o filtered
    IN  [allHistory EXCEPT ![username] = SliceTo(unshifted, HistoryCap)]

(***************************************************************************)
(* JavaScript numbers the viewer computes: a quotient correct / total * 100 *)
(* is kept as the pair it comes from, and is NaN when total is 0; a card    *)
(* index is NaN once it has been taken modulo 0.                            *)
(***************************************************************************)
Number(n) == [correct |-> n, total |-> 100]

Score(correct, total) == [correct |-> correct, total |-> total]

IsNaNScore(x) == x.total = 0

PassMark == 60

\* quizScore >= 60, false for NaN
PassesAlways(x) == TRUE

Passes(x) == ~IsNaNScore(x) /\ x.correct * 100 >= PassMark * x.total

Index(i) == [nan |-> FALSE, i |-> i]

NaNIndex == [nan |-> TRUE, i |-> 0]

\* (a) % n of JavaScript for a >= 0
Mod(a, n) == IF a.nan \/ n = 0 THEN NaNIndex ELSE Index(a.i % n)

Plus(a, k) == IF a.nan THEN NaNIndex ELSE Index(a.i + k)

(***************************************************************************)
(* CourseViewer.                                                           *)
(***************************************************************************)
FLASHCARDS  == 0
QUIZ        == 1
APPLICATION == 2
DEEP_DIVE   == 3

\* selectedCourse of App before any course was opened (null)
NoCourse == [id |-> <<>>, content |-> <<>>, quiz |-> <<>>]

Levels == {FLASHCARDS, QUIZ, APPLICATION, DEEP_DIVE}

flashcards == selectedCourse.content

\* unlockLevel(level): the new maxUnlockedLevel
unlockedMaxAlways(level) == level

unlockedMax(level) == IF level > maxUnlockedLevel THEN level ELSE maxUnlockedLevel

\* the fetch effects that run after a render whose dependencies changed:
\* level, questions, appText, deepText are the values of that render
EffectsAfter(level, questions, loadingQuiz, loadingInsight, appText, deepText, pending) ==
    LET quizDeps == level # currentLevel \/ Len(questions) # Len(quizQuestions)
        appDeps  == level # currentLevel \/ appText # applicationText
        deepDeps == level # currentLevel \/ deepText # deepDiveText
        runQuiz  == quizDeps /\ level = QUIZ /\ Len(questions) = 0 /\ ~loadingQuiz
        runApp   == appDeps /\ level = APPLICATION /\ appText = "" /\ ~loadingInsight
        runDeep  == deepDeps /\ level = DEEP_DIVE /\ deepText = "" /\ ~loadingInsight
    IN  /\ quizLoading' = (loadingQuiz \/ runQuiz)
        /\ insightLoading' = (loadingInsight \/ runApp \/ runDeep)
        /\ pendingFetch' = pending \cup (IF runQuiz THEN {"quiz"} ELSE {})
                                   \cup (IF runApp THEN {"application"} ELSE {})
                                   \cup (IF runDeep THEN {"deepDive"} ELSE {})

Mounted == currentPage = "COURSE_VIEW"

\* unlockLevel(level), then the effects of the new render
unlockLevel(level) ==
    /\ maxUnlockedLevel' = unlockedMax(level)
    /\ unlockTrail' = IF unlockedMax(level) # maxUnlockedLevel
                      THEN Append(unlockTrail, level) ELSE unlockTrail
    /\ currentLevel' = level
    /\ EffectsAfter(level, quizQuestions, quizLoading, insightLoading,
                    applicationText, deepDiveText, pendingFetch)

\* a click on the progression bar
clickLevel(l) ==
    /\ Mounted
    /\ maxUnlockedLevel >= l
    /\ currentLevel' = l
    /\ EffectsAfter(l, quizQuestions, quizLoading, insightLoading,
                    applicationText, deepDiveText, pendingFetch)
    /\ UNCHANGED <<user, currentPage, selectedCourse, maxUnlockedLevel, currentCard,
                   quizQuestions, quizAnswers, quizSubmitted, quizScore,
                   applicationText, deepDiveText, unlockTrail, dbHistory>>
    /\ ViewerOnly

isLastCard == ~currentCard.nan /\ currentCard.i = Len(flashcards) - 1

handleNextCard ==
    /\ Mounted /\ currentLevel = FLASHCARDS /\ ~isLastCard
    /\ currentCard' = Mod(Plus(currentCard, 1), Len(flashcards))
    /\ UNCHANGED <<user, currentPage, selectedCourse, currentLevel, maxUnlockedLevel,
                   quizQuestions, quizLoading, quizAnswers, quizSubmitted, quizScore,
                   applicationText, deepDiveText, insightLoading, pendingFetch,
                   unlockTrail, dbHistory>>
    /\ ViewerOnly

handlePrevCard ==
    /\ Mounted /\ currentLevel = FLASHCARDS
    /\ currentCard' = Mod(Plus(currentCard, Len(flashcards) - 1), Len(flashcards))
    /\ UNCHANGED <<user, currentPage, selectedCourse, currentLevel, maxUnlockedLevel,
                   quizQuestions, quizLoading, quizAnswers, quizSubmitted, quizScore,
                   applicationText, deepDiveText, insightLoading, pendingFetch,
                   unlockTrail, dbHistory>>
    /\ ViewerOnly

handleFinishFlashcards ==
    /\ Mounted /\ currentLevel = FLASHCARDS /\ isLastCard
    /\ unlockLevel(QUIZ)
    /\ UNCHANGED <<user, currentPage, selectedCourse, currentCard, quizQuestions,
                   quizAnswers, quizSubmitted, quizScore, applicationText,
                   deepDiveText, dbHistory>>
    /\ ViewerOnly

\* the quiz panel is rendered
QuizShown == Mounted /\ currentLevel = QUIZ /\ ~quizLoading

\* newAns[qIndex] = optionIndex on a copy: an index past the end leaves holes.
\* An entry is the set of the option selected, empty for a hole.
withAnswer(ans, qIndex, optionIndex) ==
    [i \in 1..(IF qIndex > Len(ans) THEN qIndex ELSE Len(ans)) |->
        IF i = qIndex THEN {optionIndex}
        ELSE IF i <= Len(ans) THEN ans[i] ELSE {}]

handleQuizSelect(qIndex, optionIndex) ==
    /\ QuizShown
    /\ qIndex \in DOMAIN quizQuestions
    /\ optionIndex \in 0..(quizQuestions[qIndex].options - 1)
    /\ ~quizSubmitted
    /\ quizAnswers' = withAnswer(quizAnswers, qIndex, optionIndex)
    /\ UNCHANGED <<user, currentPage, selectedCourse, currentLevel, maxUnlockedLevel,
                   currentCard, quizQuestions, quizLoading, quizSubmitted, quizScore,
                   applicationText, deepDiveText, insightLoading, pendingFetch,
                   unlockTrail, dbHistory>>
    /\ ViewerOnly

\* submitQuiz's guard: quizAnswers.length < quizQuestions.length
refuses(ans, questions) == Len(ans) < Len(questions)

correctCount(ans, questions) ==
    Cardinality({i \in DOMAIN questions : i <= Len(ans) /\ ans[i] = {questions[i].answer}})

scoreOf(ans, questions) == Score(correctCount(ans, questions), Len(questions))

submitQuiz ==
    /\ QuizShown /\ ~quizSubmitted
    /\ IF refuses(quizAnswers, quizQuestions)
       THEN UNCHANGED <<quizScore, quizSubmitted>>
       ELSE /\ quizScore' = scoreOf(quizAnswers, quizQuestions)
            /\ quizSubmitted' = TRUE
    /\ UNCHANGED <<user, currentPage, selectedCourse, currentLevel, maxUnlockedLevel,
                   currentCard, quizQuestions, quizLoading, quizAnswers,
                   applicationText, deepDiveText, insightLoading, pendingFetch,
                   unlockTrail, dbHistory>>
    /\ ViewerOnly

\* 'Proceed to Praxis' is rendered
ProceedShown == QuizShown /\ quizSubmitted /\ Passes(quizScore)

handleFinishQuiz ==
    /\ ProceedShown
    /\ IF Passes(quizScore)
       THEN unlockLevel(APPLICATION)
       ELSE UNCHANGED <<currentLevel, maxUnlockedLevel, unlockTrail, quizLoading,
                        insightLoading, pendingFetch>>
    /\ UNCHANGED <<user, currentPage, selectedCourse, currentCard, quizQuestions,
                   quizAnswers, quizSubmitted, quizScore, applicationText,
                   deepDiveText, dbHistory>>
    /\ ViewerOnly

handleFinishApplication ==
    /\ Mounted /\ currentLevel = APPLICATION /\ ~insightLoading
    /\ unlockLevel(DEEP_DIVE)
    /\ UNCHANGED <<user, currentPage, selectedCourse, currentCard, quizQuestions,
                   quizAnswers, quizSubmitted, quizScore, applicationText,
                   deepDiveText, dbHistory>>
    /\ ViewerOnly

\* the state of a CourseViewer at its mount, which is also what is left
\* of it once it has unmounted
FreshViewer(quiz) ==
    /\ currentLevel' = FLASHCARDS
    /\ maxUnlockedLevel' = FLASHCARDS
    /\ currentCard' = Index(0)
    /\ quizQuestions' = quiz
    /\ quizLoading' = FALSE
    /\ quizAnswers' = <<>>
    /\ quizSubmitted' = FALSE
    /\ quizScore' = Number(0)
    /\ applicationText' = ""
    /\ deepDiveText' = ""
    /\ insightLoading' = FALSE
    /\ pendingFetch' = {}
    /\ unlockTrail' = <<>>

MountViewer(course) ==
    /\ selectedCourse' = course
    /\ currentPage' = "COURSE_VIEW"
    /\ FreshViewer(course.quiz)

\* the page changes and the viewer, if shown, unmounts: its state is dropped
\* and its pending fetches resolve into a component that is gone
LeaveTo(page) ==
    /\ currentPage' = page
    /\ FreshViewer(<<>>)
    /\ UNCHANGED selectedCourse

\* 'Mark As Mastered' is rendered
MasteredShownFromPraxis == Mounted /\ currentLevel >= APPLICATION /\ ~insightLoading

MasteredShown == Mounted /\ currentLevel = DEEP_DIVE /\ ~insightLoading

handleFinishDeepDive ==
    /\ MasteredShown
    /\ dbHistory' = IF user # Null
                    THEN addToHistory(dbHistory, user, selectedCourse.id, "completed")
                    ELSE dbHistory
    /\ LeaveTo("PROFILE")
    /\ UNCHANGED user
    /\ ViewerOnly

\* the Exit button
onBack ==
    /\ Mounted
    /\ LeaveTo("PROFILE")
    /\ UNCHANGED <<user, dbHistory>>
    /\ ViewerOnly

\* generateQuiz has answered
quizFetched(q) ==
    /\ Mounted /\ "quiz" \in pendingFetch
    /\ quizQuestions' = q
    /\ EffectsAfter(currentLevel, q, FALSE, insightLoading, applicationText,
                    deepDiveText, pendingFetch \ {"quiz"})
    /\ UNCHANGED <<user, currentPage, selectedCourse, currentLevel, maxUnlockedLevel,
                   currentCard, quizAnswers, quizSubmitted, quizScore,
                   applicationText, deepDiveText, unlockTrail, dbHistory>>
    /\ ViewerOnly

\* generateApplicationInsight has answered
applicationFetched(text) ==
    /\ Mounted /\ "application" \in pendingFetch
    /\ applicationText' = text
    /\ EffectsAfter(currentLevel, quizQuestions, quizLoading, FALSE, text,
                    deepDiveText, pendingFetch \ {"application"})
    /\ UNCHANGED <<user, currentPage, selectedCourse, currentLevel, maxUnlockedLevel,
                   currentCard, quizQuestions, quizAnswers, quizSubmitted, quizScore,
                   deepDiveText, unlockTrail, dbHistory>>
    /\ ViewerOnly

\* generateDeepDive has answered
deepDiveFetched(text) ==
    /\ Mounted /\ "deepDive" \in pendingFetch
    /\ deepDiveText' = text
    /\ EffectsAfter(currentLevel, quizQuestions, quizLoading, FALSE, applicationText,
                    text, pendingFetch \ {"deepDive"})
    /\ UNCHANGED <<user, currentPage, selectedCourse, currentLevel, maxUnlockedLevel,
                   currentCard, quizQuestions, quizAnswers, quizSubmitted, quizScore,
                   applicationText, unlockTrail, dbHistory>>
    /\ ViewerOnly

(***************************************************************************)
(* App: login, logout, navigation and opening a course.                    *)
(***************************************************************************)
handleLogin(u) ==
    /\ currentPage = "AUTH"
    /\ user' = u
    /\ LeaveTo("PROFILE")
    /\ UNCHANGED dbHistory
    /\ ViewerOnly

handleLogout ==
    /\ currentPage # "AUTH"
    /\ user' = Null
    /\ LeaveTo("AUTH")
    /\ UNCHANGED dbHistory
    /\ ViewerOnly

\* the navigation bar
navigateTo(page) ==
    /\ currentPage # "AUTH"
    /\ currentPage # page
    /\ LeaveTo(page)
    /\ UNCHANGED <<user, dbHistory>>
    /\ ViewerOnly

\* the action handleOpenCourse records
openedAs == "viewed"

\* ProfilePage and SocialPage render, and can open a course, only with a user
handleOpenCourse(course) ==
    /\ currentPage \in {"PROFILE", "SOCIAL"}
    /\ user # Null
    /\ dbHistory' = IF user # Null
                    THEN addToHistory(dbHistory, user, course.id, openedAs)
                    ELSE dbHistory
    /\ MountViewer(course)
    /\ UNCHANGED user
    /\ ViewerOnly

\* a quiz as generateQuiz parses it: options |-> the number of options
Question(answer) == [answer |-> answer, options |-> 2]

MaxQuiz == 2

GeneratedQuiz == [i \in 1..MaxQuiz |-> Question(i % 2)]

\* the courses the model lets the user open
Openable ==
    {c \in Range(getCourses) :
        c.id \in {SysPrefix \o <<"eng-mod2">>, SysPrefix \o <<"quant-002">>}
        \/ IsUserCourse(c)}

ViewOf(c) ==
    [id |-> c.id, content |-> c.content,
     quiz |-> [i \in DOMAIN c.quiz |-> Question(c.quiz[i])]]

NextViewer ==
    \/ \E u \in Usernames : handleLogin(u)
    \/ handleLogout
    \/ \E page \in {"PROFILE", "SOCIAL"} : navigateTo(page)
    \/ \E c \in Openable : handleOpenCourse(ViewOf(c))
    \/ \E l \in Levels : clickLevel(l)
    \/ handleNextCard
    \/ handlePrevCard
    \/ handleFinishFlashcards
    \/ \E q \in 1..MaxQuiz, o \in 0..1 : handleQuizSelect(q, o)
    \/ submitQuiz
    \/ handleFinishQuiz
    \/ handleFinishApplication
    \/ handleFinishDeepDive
    \/ onBack
    \/ \E q \in {<<>>, GeneratedQuiz} : quizFetched(q)
    \/ applicationFetched("insight")
    \/ deepDiveFetched("deep dive")

(***************************************************************************)
(* SocialPage: the debate arena in its standard modes (friendly, rapid).   *)
(* A call that is waiting (a timer, a promise) keeps what its closure      *)
(* captured at the render it was made in.                                  *)
(***************************************************************************)
BattleOnly == UNCHANGED <<storeVars, authVars, viewerVars, genVars, histVars>>

OPPONENT_PERSONAS == <<"The Skeptic", "The Historian", "The Futurist", "The Poet">>

\* the length of a round in ticks of the timer: the code counts 45 and 120
\* ticks of one second, the model counts fewer and longer ones
RapidTicks    == 1
FriendlyTicks == 2

MaxPending == 2    \* calls waiting at one time
MaxRounds  == 2    \* rounds started in one behaviour

\* answers = []
NoAnswers == [users |-> <<>>, scored |-> FALSE]

Pending == Len(matchTimers) + Len(questionCalls) + Len(judgeCalls)

Without(s, i) == SubSeq(s, 1, i - 1) \o SubSeq(s, i + 1, Len(s))

\* the orders [...OPPONENT_PERSONAS].sort(() => 0.5 - Math.random()) is let
\* to produce: the list as it is and the list reversed
Shuffles ==
    {OPPONENT_PERSONAS,
     [i \in DOMAIN OPPONENT_PERSONAS |->
        OPPONENT_PERSONAS[Len(OPPONENT_PERSONAS) + 1 - i]]}

\* shuffled.slice(0, n)
Picks(n) == {SliceTo(shuffled, n) : shuffled \in Shuffles}

\* the timer effect has an automatic submission to make in this render
AutoSubmitDue == battleState = "active" /\ timeLeft = 0

\* the lobby's controls
setTopic(topic) ==
    /\ battleState = "lobby"
    /\ battleConfig' = [battleConfig EXCEPT !.topic = topic]
    /\ UNCHANGED <<battleState, opponents, timeLeft, currentQuestion, answers,
                   matchTimers, questionCalls, judgeCalls, roundNo, lastJudged,
                   matchPlayers>>
    /\ BattleOnly

setMode(mode) ==
    /\ battleState = "lobby"
    /\ battleConfig' = [battleConfig EXCEPT !.mode = mode]
    /\ UNCHANGED <<battleState, opponents, timeLeft, currentQuestion, answers,
                   matchTimers, questionCalls, judgeCalls, roundNo, lastJudged,
                   matchPlayers>>
    /\ BattleOnly

setPlayerCount(n) ==
    /\ battleState = "lobby"
    /\ battleConfig' = [battleConfig EXCEPT !.playerCount = n]
    /\ UNCHANGED <<battleState, opponents, timeLeft, currentQuestion, answers,
                   matchTimers, questionCalls, judgeCalls, roundNo, lastJudged,
                   matchPlayers>>
    /\ BattleOnly

startMatchmaking ==
    /\ battleState = "lobby"
    /\ Pending < MaxPending
    /\ IF battleConfig.topic = ""
       THEN UNCHANGED <<battleState, matchTimers>>
       ELSE /\ battleState' = "matchmaking"
            /\ matchTimers' = Append(matchTimers, battleConfig)
    /\ UNCHANGED <<battleConfig, opponents, timeLeft, currentQuestion, answers,
                   questionCalls, judgeCalls, roundNo, lastJudged, matchPlayers>>
    /\ BattleOnly

\* startRound of the render whose battleConfig is config
startRound(config) ==
    /\ battleState' = "active"
    /\ answers' = NoAnswers
    /\ currentQuestion' = "Formulating question..."
    /\ questionCalls' = Append(questionCalls, config.mode)
    /\ roundNo' = roundNo + 1

\* the 2500 ms timer of startMatchmaking fires
matchTimerFires(i) ==
    /\ i \in DOMAIN matchTimers
    /\ ~AutoSubmitDue
    /\ roundNo < MaxRounds
    /\ \E picked \in Picks(matchTimers[i].playerCount - 1) : opponents' = picked
    /\ matchPlayers' = matchTimers[i].playerCount
    /\ matchTimers' = Without(matchTimers, i)
    /\ startRound(matchTimers[i])
    /\ UNCHANGED <<battleConfig, timeLeft, judgeCalls, lastJudged>>
    /\ BattleOnly

\* the 'Next Round' button of the results
nextRound ==
    /\ battleState = "results"
    /\ roundNo < MaxRounds
    /\ Pending < MaxPending
    /\ startRound(battleConfig)
    /\ UNCHANGED <<battleConfig, opponents, timeLeft, matchTimers, judgeCalls,
                   lastJudged, matchPlayers>>
    /\ BattleOnly

\* generateBattleRound has answered
questionArrives(i) ==
    /\ i \in DOMAIN questionCalls
    /\ ~AutoSubmitDue
    /\ currentQuestion' = "question"
    /\ timeLeft' = IF questionCalls[i] = "rapid" THEN RapidTicks ELSE FriendlyTicks
    /\ questionCalls' = Without(questionCalls, i)
    /\ UNCHANGED <<battleState, battleConfig, opponents, answers, matchTimers,
                   judgeCalls, roundNo, lastJudged, matchPlayers>>
    /\ BattleOnly

\* the one-second interval of the timer effect
tick ==
    /\ battleState = "active"
    /\ timeLeft > 0
    /\ timeLeft' = timeLeft - 1
    /\ UNCHANGED <<battleState, battleConfig, opponents, currentQuestion, answers,
                   matchTimers, questionCalls, judgeCalls, roundNo, lastJudged,
                   matchPlayers>>
    /\ BattleOnly

\* submitStandardAnswer up to its first await
submitStandardAnswer ==
    /\ battleState' = "judging"
    /\ judgeCalls' = Append(judgeCalls,
           [phase |-> "opponents", round |-> roundNo, question |-> currentQuestion,
            users |-> <<user>> \o opponents, players |-> matchPlayers])
    /\ UNCHANGED <<battleConfig, opponents, timeLeft, currentQuestion, answers,
                   matchTimers, questionCalls, roundNo, lastJudged, matchPlayers>>

\* the Submit button or the Enter key
submitAnswer ==
    /\ ~AutoSubmitDue
    /\ battleState \in {"active"}
    /\ Pending < MaxPending
    /\ IF battleState # "active"
       THEN UNCHANGED battleVars
       ELSE submitStandardAnswer
    /\ BattleOnly

\* the timer effect at timeLeft = 0
autoSubmit ==
    /\ AutoSubmitDue
    /\ IF battleState # "active"
       THEN UNCHANGED battleVars
       ELSE submitStandardAnswer
    /\ BattleOnly

\* every simulateOpponentTurn has answered: setAnswers, then the judge is called
opponentsAnswered(i) ==
    /\ i \in DOMAIN judgeCalls
    /\ ~AutoSubmitDue
    /\ judgeCalls[i].phase = "opponents"
    /\ answers' = [users |-> judgeCalls[i].users, scored |-> FALSE]
    /\ judgeCalls' = [judgeCalls EXCEPT ![i].phase = "judge"]
    /\ UNCHANGED <<battleState, battleConfig, opponents, timeLeft, currentQuestion,
                   matchTimers, questionCalls, roundNo, lastJudged, matchPlayers>>
    /\ BattleOnly

\* judgeBattleRound has answered: the results are shown
judgeAnswered(i) ==
    /\ i \in DOMAIN judgeCalls
    /\ ~AutoSubmitDue
    /\ judgeCalls[i].phase = "judge"
    /\ answers' = [users |-> judgeCalls[i].users, scored |-> TRUE]
    /\ battleState' = "results"
    /\ lastJudged' = judgeCalls[i].round
    /\ judgeCalls' = Without(judgeCalls, i)
    /\ UNCHANGED <<battleConfig, opponents, timeLeft, currentQuestion, matchTimers,
                   questionCalls, roundNo, matchPlayers>>
    /\ BattleOnly

\* the Forfeit button of the arena header
forfeit ==
    /\ battleState \in {"active", "judging", "results"}
    /\ ~AutoSubmitDue
    /\ battleState' = "lobby"
    /\ UNCHANGED <<battleConfig, opponents, timeLeft, currentQuestion, answers,
                   matchTimers, questionCalls, judgeCalls, roundNo, lastJudged,
                   matchPlayers>>
    /\ BattleOnly

NextBattle ==
    \/ \E topic \in {"", "ethics"} : setTopic(topic)
    \/ \E mode \in {"friendly", "rapid"} : setMode(mode)
    \/ \E n \in {2, 3, 4} : setPlayerCount(n)
    \/ startMatchmaking
    \/ \E i \in 1..MaxPending : matchTimerFires(i)
    \/ nextRound
    \/ \E i \in 1..MaxPending : questionArrives(i)
    \/ tick
    \/ submitAnswer
    \/ autoSubmit
    \/ \E i \in 1..MaxPending : opponentsAnswered(i)
    \/ \E i \in 1..MaxPending : judgeAnswered(i)
    \/ forfeit

(***************************************************************************)
(* The wrappers of the generative AI client.  A value a wrapper resolves   *)
(* with is [kind, data]; the arguments of a call are a sequence of strings *)
(* (the topic, or the users of the answers to judge).                      *)
(***************************************************************************)
GenOnly == UNCHANGED <<storeVars, authVars, viewerVars, battleVars, histVars>>

JsonWrappers ==
    {"generateCourseContent", "personalizeFlashcards", "generateQuiz",
     "judgeBattleRound", "judgeSocraticRound", "generateCalculusProblem"}

TextWrappers ==
    {"generateApplicationInsight", "generateDeepDive", "generateBattleRound",
     "simulateOpponentTurn", "generateSocraticChallenge", "simulateSkepticTurn"}

Wrappers == JsonWrappers \cup TextWrappers

NullValue == [kind |-> "null", data |-> <<>>]

EmptyList == [kind |-> "array", data |-> <<>>]

EmptyObject == [kind |-> "object", data |-> <<>>]

Sentence(text) == [kind |-> "string", data |-> <<text>>]

\* what the catch block of a wrapper returns
Fallback(fn, args) ==
    CASE fn = "generateCourseContent" -> NullValue
      [] fn = "personalizeFlashcards" -> NullValue
      [] fn = "generateQuiz" -> EmptyList
      [] fn = "generateApplicationInsight" -> Sentence("Could not retrieve application data.")
      [] fn = "generateDeepDive" -> Sentence("Could not retrieve deep dive data.")
      [] fn = "generateBattleRound" ->
            [kind |-> "string", data |-> <<"Discuss the implications of">> \o args]
      [] fn = "simulateOpponentTurn" -> Sentence("An interesting point.")
      [] fn = "judgeBattleRound" ->
            [kind |-> "array",
             data |-> [i \in DOMAIN args |-> <<args[i], "50", "The wind whispers silence.">>]]
      [] fn = "generateSocraticChallenge" -> Sentence("Why does this concept exist?")
      [] fn = "simulateSkepticTurn" -> Sentence("I remain unconvinced. Try again.")
      [] fn = "judgeSocraticRound" ->
            [kind |-> "object", data |-> <<"pass: false", "score: 0", "The defense collapsed.">>]
      [] fn = "generateCalculusProblem" -> NullValue

\* the literal a wrapper uses in place of an empty response.text
EmptyDefault(fn) ==
    CASE fn = "generateCourseContent" -> "{}"
      [] fn = "personalizeFlashcards" -> "[]"
      [] fn = "generateQuiz" -> "[]"
      [] fn = "generateApplicationInsight" ->
            "The practical applications are vast but currently obscured."
      [] fn = "generateDeepDive" -> "The deeper mysteries remain hidden."
      [] fn = "generateBattleRound" -> "Analyze the significance of this topic."
      [] fn = "simulateOpponentTurn" -> "I must contemplate this further."
      [] fn = "judgeBattleRound" -> "[]"
      [] fn = "generateSocraticChallenge" ->
            "Explain this concept to me, for I find it logically flawed."
      [] fn = "simulateSkepticTurn" -> "Your definition lacks precision. Clarify."
      [] fn = "judgeSocraticRound" -> "{}"
      [] fn = "generateCalculusProblem" -> "null"

\* the texts a response is let to carry: none, JSON, and text that is not JSON
ResponseTexts == {"", "{\"ok\": 1}", "Sorry, I cannot help with that."}

IsJson(text) == text \in {"{}", "[]", "null", "{\"ok\": 1}"}

\* JSON.parse of a text that is JSON
JSONparse(text) ==
    CASE text = "null" -> NullValue
      [] text = "[]" -> EmptyList
      [] text = "{}" -> EmptyObject
      [] OTHER -> [kind |-> "object", data |-> <<text>>]

Resolved(value) == [state |-> "resolved", value |-> value]

Rejected(reason) == [state |-> "rejected", value |-> Sentence(reason)]

NoResult == [state |-> "none", value |-> NullValue]

NoCall == [fn |-> "", args |-> <<>>, pc |-> "none", remote |-> ""]

\* a component calls a wrapper: the call stands before createAI()
callWrapper(fn, args) ==
    /\ genCall.pc \in {"none", "settled"}
    /\ genCall' = [fn |-> fn, args |-> args, pc |-> "createAI", remote |-> ""]
    /\ genResult' = NoResult
    /\ GenOnly

\* createAI(), which stands before the try block: new GoogleGenAI either
\* gives a client or throws (no API key in the browser), and what it throws
\* rejects the promise of the async wrapper
createAI(constructed) ==
    /\ genCall.pc = "createAI"
    /\ IF constructed
       THEN /\ genCall' = [genCall EXCEPT !.pc = "generateContent"]
            /\ UNCHANGED genResult
       ELSE /\ genCall' = [genCall EXCEPT !.pc = "settled", !.remote = "no client"]
            /\ genResult' = Rejected("An API Key must be set when running in a browser")
    /\ GenOnly

\* ai.models.generateContent rejects: the catch block returns the fallback
remoteFails ==
    /\ genCall.pc = "generateContent"
    /\ genCall' = [genCall EXCEPT !.pc = "settled", !.remote = "failed"]
    /\ genResult' = Resolved(Fallback(genCall.fn, genCall.args))
    /\ GenOnly

\* what the try block makes of a response
tryBlock(fn, args, text) ==
    LET used == IF text = "" THEN EmptyDefault(fn) ELSE text
    IN  IF fn \in JsonWrappers
        THEN IF IsJson(used) THEN Resolved(JSONparse(used))
             ELSE Resolved(Fallback(fn, args))
        ELSE Resolved(Sentence(used))

\* ai.models.generateContent resolves with a response
remoteAnswers(text) ==
    /\ genCall.pc = "generateContent"
    /\ genCall' = [genCall EXCEPT !.pc = "settled", !.remote = text]
    /\ genResult' = tryBlock(genCall.fn, genCall.args, text)
    /\ GenOnly

GenArgs == {<<"ethics">>, <<"scholar", "The Skeptic">>}

NextGen ==
    \/ \E fn \in Wrappers, args \in GenArgs : callWrapper(fn, args)
    \/ \E constructed \in BOOLEAN : createAI(constructed)
    \/ remoteFails
    \/ \E text \in ResponseTexts : remoteAnswers(text)

(***************************************************************************)
(* Users and sessions of the mock backend, and AuthPage.                   *)
(***************************************************************************)
AuthOnly == UNCHANGED <<storeVars, battleVars, genVars, histVars, selectedCourse, currentLevel,
                        maxUnlockedLevel, currentCard, quizQuestions, quizLoading,
                        quizAnswers, quizSubmitted, quizScore, applicationText,
                        deepDiveText, insightLoading, pendingFetch, unlockTrail,
                        dbHistory>>

MaxLogins == 2     \* successful logins in one behaviour

\* the salts generateSalt is let to draw
Salts == {"salt-a", "salt-b"}

\* hashPassword: SHA-256 of password + salt + pepper, as the triple it digests
hashPassword(password, salt) == <<password, salt, "LUMI_PEPPER_2025">>

UserRecord(username, badge, password, salt) ==
    [user |-> [username |-> username, badges |-> <<badge>>, bio |-> "bio"],
     passwordHash |-> hashPassword(password, salt), salt |-> salt]

\* users[username] = record on a copy of the users
WithUser(users, username, record) ==
    [n \in DOMAIN users \cup {username} |-> IF n = username THEN record ELSE users[n]]

\* initDefaultUsers: the users it saves, each with a salt of its own
DefaultUsers(saltOf) ==
    [n \in {"scholar", "curator", "novice"} |->
        UserRecord(n, "Founder",
                   CASE n = "scholar" -> "password123"
                     [] n = "curator" -> "museum2025"
                     [] n = "novice" -> "learn",
                   saltOf[n])]

\* saveUser's check: users[user.username] is there
existsNever(users, username) == FALSE

exists(users, username) == username \in DOMAIN users

BlankForm == [username |-> "", password |-> ""]

\* a mounted AuthPage with nothing running
AuthIdle == currentPage = "AUTH" /\ authPc = "idle"

\* typing into the form
handleChange(username, password) ==
    /\ AuthIdle
    /\ formData' = [username |-> username, password |-> password]
    /\ UNCHANGED <<dbUsers, dbSessions, sessionToken, isLogin, loading, error, authPc,
                   submitFlip, onLoginCalls, loginResult, user, currentPage>>
    /\ AuthOnly

\* the link under the form: setIsLogin(!isLogin)
toggleIsLogin ==
    /\ AuthIdle
    /\ isLogin' = ~isLogin
    /\ UNCHANGED <<dbUsers, dbSessions, sessionToken, loading, error, formData, authPc,
                   submitFlip, onLoginCalls, loginResult, user, currentPage>>
    /\ AuthOnly

\* the form is submitted (its inputs are required, its button is disabled
\* while loading): handleSubmit up to the 800 ms wait of loginUser, or to
\* its end when saveUser throws
handleSubmit ==
    /\ AuthIdle
    /\ ~loading
    /\ formData.username # "" /\ formData.password # ""
    /\ Len(onLoginCalls) < MaxLogins
    /\ submitFlip' = ~submitFlip
    /\ IF isLogin
       THEN /\ loading' = TRUE
            /\ error' = ""
            /\ authPc' = "loginUser"
            /\ UNCHANGED dbUsers
       ELSE IF exists(dbUsers, formData.username)
            THEN /\ error' = "Scholar already exists in the archives."
                 /\ loading' = FALSE
                 /\ UNCHANGED <<dbUsers, authPc>>
            ELSE /\ \E salt \in Salts :
                        dbUsers' = WithUser(dbUsers, formData.username,
                            UserRecord(formData.username, "Novice", formData.password, salt))
                 /\ loading' = TRUE
                 /\ error' = ""
                 /\ authPc' = "loginUser after saveUser"
    /\ UNCHANGED <<dbSessions, sessionToken, isLogin, formData, onLoginCalls,
                   loginResult, user, currentPage>>
    /\ AuthOnly

\* sessionStorage without 'lumi_session_token'
NoToken == <<>>

\* no User: null
NoUser == [username |-> "", badges |-> <<>>, bio |-> ""]

\* what loginUser returns: { user, token } or null; none before the first call
LoginSession(userOf, token) == [kind |-> "session", user |-> userOf, token |-> token]

LoginNull == [kind |-> "null", user |-> NoUser, token |-> NoToken]

NoLoginResult == [kind |-> "none", user |-> NoUser, token |-> NoToken]

\* Math.random().toString(36).substring(2): a token no session has yet
NewToken == <<"token", Cardinality(DOMAIN dbSessions) + 1>>

\* record.passwordHash === challengeHash
challengePassesAlways(record, passwordRaw) == TRUE

challengePasses(record, passwordRaw) ==
    record.passwordHash = hashPassword(passwordRaw, record.salt)

\* loginUser after its wait, and the rest of handleSubmit
loginUser ==
    /\ currentPage = "AUTH"
    /\ authPc \in {"loginUser", "loginUser after saveUser"}
    /\ \E saltOf \in [{"scholar", "curator", "novice"} -> Salts] :
        LET users  == IF DOMAIN dbUsers = {} THEN DefaultUsers(saltOf) ELSE dbUsers
            name   == formData.username
            passes == /\ name \in DOMAIN users
                      /\ challengePasses(users[name], formData.password)
        IN  /\ dbUsers' = users
            /\ IF passes
               THEN /\ dbSessions' = [t \in DOMAIN dbSessions \cup {NewToken} |->
                                        IF t = NewToken THEN name ELSE dbSessions[t]]
                    /\ sessionToken' = NewToken
                    /\ loginResult' = LoginSession(users[name].user, NewToken)
                    /\ onLoginCalls' = Append(onLoginCalls, name)
                    /\ user' = name
                    /\ currentPage' = "PROFILE"
                    /\ error' = ""
               ELSE /\ error' = IF authPc = "loginUser"
                                THEN "Invalid credentials. The archives are silent."
                                ELSE ""
                    /\ loginResult' = LoginNull
                    /\ UNCHANGED <<dbSessions, sessionToken, onLoginCalls, user,
                                   currentPage>>
    /\ loading' = FALSE
    /\ authPc' = "idle"
    /\ UNCHANGED <<isLogin, formData, submitFlip>>
    /\ AuthOnly

\* handleLogout of App with logoutUser; AuthPage mounts anew
logoutUser ==
    /\ currentPage = "PROFILE"
    /\ sessionToken' = NoToken
    /\ user' = Null
    /\ currentPage' = "AUTH"
    /\ isLogin' = TRUE
    /\ formData' = BlankForm
    /\ loading' = FALSE
    /\ error' = ""
    /\ UNCHANGED <<dbUsers, dbSessions, authPc, submitFlip, onLoginCalls, loginResult>>
    /\ AuthOnly

\* getCurrentUser(): the user of the session of this tab, or null
getCurrentUserOfAnySession ==
    IF DOMAIN dbSessions = {} THEN NoUser
    ELSE LET username == dbSessions[CHOOSE t \in DOMAIN dbSessions : TRUE]
         IN  IF username \in DOMAIN dbUsers THEN dbUsers[username].user ELSE NoUser

getCurrentUser ==
    IF sessionToken = NoToken THEN NoUser
    ELSE IF sessionToken \notin DOMAIN dbSessions THEN NoUser
    ELSE LET username == dbSessions[sessionToken]
         IN  IF username \in DOMAIN dbUsers THEN dbUsers[username].user ELSE NoUser

\* the page is loaded anew in the same tab: App and AuthPage start from
\* their initial state and initAuth asks getCurrentUser
initAuth ==
    /\ authPc = "idle"
    /\ currentPage \in {"AUTH", "PROFILE"}
    /\ user' = IF getCurrentUser = NoUser THEN Null ELSE getCurrentUser.username
    /\ currentPage' = IF getCurrentUser = NoUser THEN "AUTH" ELSE "PROFILE"
    /\ isLogin' = TRUE
    /\ formData' = BlankForm
    /\ loading' = FALSE
    /\ error' = ""
    /\ UNCHANGED <<dbUsers, dbSessions, sessionToken, authPc, submitFlip, onLoginCalls,
                   loginResult>>
    /\ AuthOnly

\* the texts a profile form can hold
Bios == {"bio", "new bio"}

\* handleSaveProfile of ProfilePage: updateUser(user.username, updates)
updateUser(updates) ==
    /\ currentPage = "PROFILE"
    /\ user # Null
    /\ user \in DOMAIN dbUsers
    /\ dbUsers' = [dbUsers EXCEPT ![user].user.bio = updates.bio]
    /\ UNCHANGED <<dbSessions, sessionToken, isLogin, loading, error, formData, authPc,
                   submitFlip, onLoginCalls, loginResult, user, currentPage>>
    /\ AuthOnly

FormNames == {"scholar", "pupil"}

FormPasswords == {"password123", "secret"}

NextAuth ==
    \/ \E username \in FormNames, password \in FormPasswords :
            handleChange(username, password)
    \/ toggleIsLogin
    \/ handleSubmit
    \/ loginUser
    \/ logoutUser
    \/ initAuth
    \/ \E bio \in Bios : updateUser([bio |-> bio])

(***************************************************************************)
(* Initial states of the other parts.                                      *)
(***************************************************************************)
InitAuth ==
    /\ dbUsers = <<>>
    /\ dbSessions = <<>>
    /\ sessionToken = NoToken
    /\ isLogin = TRUE
    /\ loading = FALSE
    /\ error = ""
    /\ formData = BlankForm
    /\ authPc = "idle"
    /\ submitFlip = FALSE
    /\ onLoginCalls = <<>>
    /\ loginResult = NoLoginResult

InitViewerAs(who) ==
    /\ user = who
    /\ currentPage = IF who = Null THEN "AUTH" ELSE "PROFILE"
    /\ selectedCourse = NoCourse
    /\ currentLevel = 0
    /\ maxUnlockedLevel = 0
    /\ currentCard = Index(0)
    /\ quizQuestions = <<>>
    /\ quizLoading = FALSE
    /\ quizAnswers = <<>>
    /\ quizSubmitted = FALSE
    /\ quizScore = Number(0)
    /\ applicationText = ""
    /\ deepDiveText = ""
    /\ insightLoading = FALSE
    /\ pendingFetch = {}
    /\ unlockTrail = <<>>
    /\ dbHistory = [n \in Usernames |-> <<>>]

InitBattle ==
    /\ battleState = "lobby"
    /\ battleConfig = [topic |-> "", mode |-> "friendly", playerCount |-> 2]
    /\ opponents = <<>>
    /\ timeLeft = 0
    /\ currentQuestion = ""
    /\ answers = NoAnswers
    /\ matchTimers = <<>>
    /\ questionCalls = <<>>
    /\ judgeCalls = <<>>
    /\ roundNo = 0
    /\ lastJudged = 0
    /\ matchPlayers = 0

InitGen ==
    /\ genCall = NoCall
    /\ genResult = NoResult

\* no addToHistory call was observed yet
NoHistoryCall == [username |-> Null, courseId |-> <<>>, action |-> ""]

InitHistoryCalls ==
    /\ historyCalls = 0
    /\ lastHistoryCall = NoHistoryCall

\* the stored courses, written by the user logged in for the session
InitSpecStore ==
    /\ InitStore /\ InitAuth /\ InitBattle /\ InitGen /\ InitHistoryCalls
    /\ \E who \in Usernames : InitViewerAs(who)

\* CreateCourse, ProfilePage and the commons of SocialPage over the store
SpecStore == InitSpecStore /\ [][NextStore]_vars

\* the course an AI submission stored before the session
StoredAICourse ==
    [id |-> <<"course", "t", 1>>, title |-> "AI course", content |-> Cards("ai", 2),
     quiz |-> AIQuiz, isPublic |-> TRUE, likes |-> <<>>, comments |-> <<>>]

InitSpecViewer ==
    /\ InitAuth /\ InitBattle /\ InitGen /\ InitHistoryCalls /\ InitViewerAs(Null)
    /\ dbCourses = <<StoredAICourse>>
    /\ view = "unmounted" /\ editorCourse = BlankEditor /\ editCount = 0
    /\ clock = 1 /\ writes = 1 /\ lastEdit = NoEdit

\* App and CourseViewer over a store that holds one AI-generated course
SpecViewer == InitSpecViewer /\ [][NextViewer]_vars

InitSpecBattle ==
    /\ InitStore /\ InitAuth /\ InitBattle /\ InitGen /\ InitHistoryCalls
    /\ user = "scholar" /\ currentPage = "SOCIAL"
    /\ selectedCourse = NoCourse
    /\ currentLevel = FLASHCARDS /\ maxUnlockedLevel = FLASHCARDS
    /\ currentCard = Index(0)
    /\ quizQuestions = <<>> /\ quizLoading = FALSE /\ quizAnswers = <<>>
    /\ quizSubmitted = FALSE /\ quizScore = Number(0)
    /\ applicationText = "" /\ deepDiveText = "" /\ insightLoading = FALSE
    /\ pendingFetch = {} /\ unlockTrail = <<>>
    /\ dbHistory = [n \in Usernames |-> <<>>]

\* the debate arena of one mounted SocialPage
SpecBattle == InitSpecBattle /\ [][NextBattle]_vars

InitSpecGen ==
    /\ InitStore /\ InitAuth /\ InitBattle /\ InitGen /\ InitHistoryCalls
    /\ InitViewerAs("scholar")

\* the wrappers of the AI client, one call at a time
SpecGen == InitSpecGen /\ [][NextGen]_vars

InitSpecAuth ==
    /\ InitStore /\ InitAuth /\ InitBattle /\ InitGen /\ InitHistoryCalls
    /\ InitViewerAs(Null)

\* AuthPage over the users and sessions of the mock backend
SpecAuth == InitSpecAuth /\ [][NextAuth]_vars

(***************************************************************************)
(* Claims about the course viewer.                                         *)
(***************************************************************************)

\* C3: the displayed level never exceeds the highest unlocked level, and
\* while one CourseViewer stays mounted maxUnlockedLevel never decreases and
\* grows by one level at a time (FLASHCARDS, QUIZ, APPLICATION, DEEP_DIVE).
C3_ProgressionGating ==
    /\ [](currentLevel \in Levels /\ maxUnlockedLevel \in Levels
          /\ currentLevel <= maxUnlockedLevel)
    /\ [][(Mounted /\ Mounted') =>
            \/ maxUnlockedLevel' = maxUnlockedLevel
            \/ maxUnlockedLevel' = maxUnlockedLevel + 1]_vars

\* every level was unlocked and the user went back to the flashcards
C3_Witness ==
    /\ Mounted
    /\ maxUnlockedLevel = DEEP_DIVE
    /\ currentLevel = FLASHCARDS
    /\ unlockTrail = <<QUIZ, APPLICATION, DEEP_DIVE>>

\* C4: APPLICATION (and so DEEP_DIVE) is unlocked only after the quiz was
\* submitted with a score of at least 60: maxUnlockedLevel >= APPLICATION
\* implies quizSubmitted and quizScore >= 60.
C4_ApplicationNeedsPassedQuiz ==
    maxUnlockedLevel >= APPLICATION =>
        /\ quizSubmitted
        /\ quizScore.total # 0
        /\ quizScore.correct * 100 >= 60 * quizScore.total

\* APPLICATION is unlocked after a submitted quiz
C4_Witness ==
    /\ Mounted
    /\ maxUnlockedLevel = APPLICATION
    /\ currentLevel = APPLICATION
    /\ quizSubmitted

\* C5: a history write happens only for the logged-in user; a 'completed'
\* record is written only by 'Mark As Mastered' at DEEP_DIVE, after QUIZ,
\* APPLICATION and DEEP_DIVE were unlocked in that order in this viewer with
\* a passed quiz; opening a course writes only a 'viewed' record.
C5_CompletedOnlyByMastery ==
    [][dbHistory' # dbHistory =>
        /\ user # Null
        /\ \A n \in Usernames \ {user} : dbHistory'[n] = dbHistory[n]
        /\ Len(dbHistory'[user]) > 0
        /\ LET r == Head(dbHistory'[user])
           IN  \/ /\ r.action = "viewed"
                  /\ ~Mounted /\ Mounted'
                  /\ r.courseId = selectedCourse'.id
               \/ /\ r.action = "completed"
                  /\ Mounted /\ ~Mounted'
                  /\ r.courseId = selectedCourse.id
                  /\ currentLevel = DEEP_DIVE
                  /\ unlockTrail = <<QUIZ, APPLICATION, DEEP_DIVE>>
                  /\ quizSubmitted
                  /\ quizScore.total # 0
                  /\ quizScore.correct * 100 >= 60 * quizScore.total]_vars

\* a user has a 'completed' record on top of a history of two courses
C5_Witness ==
    \E n \in Usernames :
        /\ Len(dbHistory[n]) >= 2
        /\ dbHistory[n][1].action = "completed"
        /\ dbHistory[n][2].action = "viewed"

\* C9: submitQuiz scores (sets quizSubmitted) only when every question of
\* the quiz has a selected option, in whatever order the answers were chosen.
C9_SubmitNeedsEveryAnswer ==
    [][(~quizSubmitted /\ quizSubmitted') =>
        \A i \in DOMAIN quizQuestions :
            i <= Len(quizAnswers) /\ quizAnswers[i] # {}]_vars

\* C10: a submitted quiz whose every question was answered correctly has
\* the score 100 and shows 'Proceed to Praxis', the empty quiz included.
C10_AllCorrectGivesHundred ==
    (/\ QuizShown
     /\ quizSubmitted
     /\ \A i \in DOMAIN quizQuestions :
            i <= Len(quizAnswers) /\ quizAnswers[i] = {quizQuestions[i].answer})
    => /\ quizScore.total # 0
       /\ quizScore.correct * 100 = 100 * quizScore.total
       /\ ProceedShown

\* the same for the quizzes that have a question (auxiliary)
C10_NonEmptyAllCorrect ==
    Len(quizQuestions) > 0 => C10_AllCorrectGivesHundred

(***************************************************************************)
(* Claims about the debate arena.                                          *)
(***************************************************************************)

\* the battle state becomes 'judging' only from 'active' (auxiliary)
C6_JudgingOnlyFromActive ==
    [][(battleState' = "judging" /\ battleState # "judging")
        => battleState = "active"]_vars

\* the judge is called with one answer per participant: the user first, then
\* one for each of the playerCount - 1 distinct personas picked at
\* matchmaking (auxiliary)
C6_OneAnswerPerParticipant ==
    \A i \in DOMAIN judgeCalls :
        LET call == judgeCalls[i]
        IN  /\ Len(call.users) = call.players
            /\ call.players \in {2, 3, 4}
            /\ call.users[1] = user
            /\ \A j \in 2..Len(call.users) : call.users[j] \in Range(OPPONENT_PERSONAS)
            /\ \A j, k \in 1..Len(call.users) : j # k => call.users[j] # call.users[k]

\* the battle state becomes 'results' only when judgeBattleRound has
\* answered for the round in play (auxiliary)
C6_ResultsOnlyOfThisRound ==
    [][(battleState' = "results" /\ battleState # "results")
        => lastJudged' = roundNo]_vars

\* C6: in standard mode the battle state becomes 'judging' only from
\* 'active', becomes 'results' only after judgeBattleRound has answered for
\* that round, and the judge receives exactly one answer per participant.
C6_DebateRounds ==
    /\ C6_JudgingOnlyFromActive
    /\ C6_ResultsOnlyOfThisRound
    /\ []C6_OneAnswerPerParticipant

(***************************************************************************)
(* Claims about the AI wrappers.                                           *)
(***************************************************************************)

\* a wrapper that got its client resolves, and with its fallback when the
\* remote call failed or, for a wrapper that parses JSON, when the text is
\* not JSON (auxiliary)
C7_FallbackWithClient ==
    (genCall.pc = "settled" /\ genCall.remote # "no client") =>
        /\ genResult.state = "resolved"
        /\ (\/ genCall.remote = "failed"
            \/ genCall.fn \in JsonWrappers /\ genCall.remote # "" /\ ~IsJson(genCall.remote))
           => genResult.value = Fallback(genCall.fn, genCall.args)

\* C7: every generation function resolves with its fixed fallback value when
\* the remote call fails or returns unparsable text, and never rejects.
C7_WrappersNeverReject ==
    genCall.pc = "settled" =>
        /\ genResult.state = "resolved"
        /\ (\/ genCall.remote = "failed"
            \/ genCall.fn \in JsonWrappers /\ genCall.remote # "" /\ ~IsJson(genCall.remote))
           => genResult.value = Fallback(genCall.fn, genCall.args)

(***************************************************************************)
(* Claims about registration.                                              *)
(***************************************************************************)

\* C8: submitting the registration form with a username the users store
\* already has leaves the users (and the sessions) unchanged, shows 'Scholar
\* already exists in the archives.', ends with loading = false and calls
\* onLogin for nobody.
C8_RegisterExistingFails ==
    [][(/\ submitFlip' # submitFlip
        /\ ~isLogin
        /\ formData.username \in DOMAIN dbUsers)
       => /\ dbUsers' = dbUsers
          /\ dbSessions' = dbSessions
          /\ sessionToken' = sessionToken
          /\ error' = "Scholar already exists in the archives."
          /\ loading' = FALSE
          /\ authPc' = "idle"
          /\ onLoginCalls' = onLoginCalls
          /\ user' = user
          /\ currentPage' = "AUTH"]_vars

\* the registration form shows the error for the name of a seeded user
C8_Witness ==
    /\ currentPage = "AUTH"
    /\ ~isLogin
    /\ authPc = "idle"
    /\ ~loading
    /\ error = "Scholar already exists in the archives."
    /\ formData.username \in DOMAIN dbUsers
    /\ dbUsers[formData.username].user.badges = <<"Founder">>

(***************************************************************************)
(* Claims about a failed quiz.                                             *)
(***************************************************************************)

\* the result panel shows a score below the pass mark
FailedShown ==
    /\ QuizShown
    /\ quizSubmitted
    /\ ~IsNaNScore(quizScore)
    /\ quizScore.correct * 100 < PassMark * quizScore.total

\* a step of the mounted viewer that changes the answers or takes the
\* submission back
RetryStep ==
    /\ NextViewer
    /\ Mounted'
    /\ quizAnswers' # quizAnswers \/ quizSubmitted' # quizSubmitted

\* C11: a user who scored below 60 can try the quiz again inside the same
\* CourseViewer: whenever the result panel shows a score below 60, the
\* viewer offers a step that changes the answers or reopens the submission.
C11_FailedQuizCanBeRetried == FailedShown => ENABLED RetryStep

\* what the code does instead: while the viewer stays mounted, a submitted
\* quiz with a score below 60 keeps its answers, its score and its
\* submission, and APPLICATION stays locked.
C11_FailedQuizIsFinal ==
    [][(/\ Mounted /\ Mounted'
        /\ quizSubmitted
        /\ ~IsNaNScore(quizScore)
        /\ quizScore.correct * 100 < PassMark * quizScore.total)
       => /\ quizSubmitted'
          /\ quizAnswers' = quizAnswers
          /\ quizScore' = quizScore
          /\ maxUnlockedLevel' < APPLICATION]_vars

(***************************************************************************)
(* Claims about the flashcard deck.                                        *)
(***************************************************************************)

\* the flashcard panel is rendered
DeckShown == Mounted /\ currentLevel = FLASHCARDS

\* C12: for every course that can be opened, also one with an empty
\* content list, the flashcard index stays a number after next/previous
\* and, for a deck with cards, a position of the deck; on the last card
\* 'Take The Test' is offered.
C12_CardIndexStaysValid ==
    DeckShown =>
        /\ ~currentCard.nan
        /\ Len(flashcards) > 0 => currentCard.i \in 0..(Len(flashcards) - 1)
        /\ isLastCard => ENABLED handleFinishFlashcards

\* what holds for a deck with cards: the index is a position of the deck
\* and the last card offers 'Take The Test'
C12_NonEmptyDeckIndexValid ==
    (DeckShown /\ Len(flashcards) > 0) =>
        /\ ~currentCard.nan
        /\ currentCard.i \in 0..(Len(flashcards) - 1)
        /\ isLastCard => ENABLED handleFinishFlashcards

\* what the code does for an empty deck: no position is the last card, so
\* QUIZ is never unlocked
C12_EmptyDeckLocksQuiz ==
    (Mounted /\ Len(flashcards) = 0) =>
        /\ ~isLastCard
        /\ maxUnlockedLevel = FLASHCARDS

(***************************************************************************)
(* The history store under direct calls of addToHistory.                   *)
(***************************************************************************)
HistoryOnly ==
    UNCHANGED <<storeVars, authVars, battleVars, genVars, user, currentPage,
                selectedCourse, currentLevel, maxUnlockedLevel, currentCard,
                quizQuestions, quizLoading, quizAnswers, quizSubmitted, quizScore,
                applicationText, deepDiveText, insightLoading, pendingFetch,
                unlockTrail>>

MaxHistoryCalls == 3     \* addToHistory calls in one behaviour

\* the id Date.now() gave the k-th course
HistoryCourse(k) == <<"course", "t", k>>

\* the history of a user who viewed the courses 1..n in this order
ViewedInOrder(n) ==
    [i \in 1..n |-> [courseId |-> HistoryCourse(n + 1 - i), action |-> "viewed"]]

\* the courses of the calls: the oldest of a full history and two that are
\* in no history yet
CalledCourses ==
    {HistoryCourse(1), HistoryCourse(HistoryCap + 1), HistoryCourse(HistoryCap + 2)}

\* getUserHistory(username)
getUserHistory(username) == dbHistory[username]

\* one call addToHistory(username, courseId, action)
callAddToHistory(username, courseId, action) ==
    /\ historyCalls < MaxHistoryCalls
    /\ dbHistory' = addToHistory(dbHistory, username, courseId, action)
    /\ historyCalls' = historyCalls + 1
    /\ lastHistoryCall' = [username |-> username, courseId |-> courseId,
                           action |-> action]
    /\ HistoryOnly

NextHistory ==
    \E username \in Usernames, courseId \in CalledCourses,
       action \in {"viewed", "completed"} :
        callAddToHistory(username, courseId, action)

\* scholar's history is empty, one short of the cap or full; novice's
\* holds two courses
InitSpecHistory ==
    /\ InitStore /\ InitAuth /\ InitBattle /\ InitGen /\ InitHistoryCalls
    /\ user = "scholar" /\ currentPage = "PROFILE"
    /\ selectedCourse = NoCourse
    /\ currentLevel = FLASHCARDS /\ maxUnlockedLevel = FLASHCARDS
    /\ currentCard = Index(0)
    /\ quizQuestions = <<>> /\ quizLoading = FALSE /\ quizAnswers = <<>>
    /\ quizSubmitted = FALSE /\ quizScore = Number(0)
    /\ applicationText = "" /\ deepDiveText = "" /\ insightLoading = FALSE
    /\ pendingFetch = {} /\ unlockTrail = <<>>
    /\ \E n \in {0, HistoryCap - 1, HistoryCap} :
        dbHistory = [name \in Usernames |->
                        IF name = "scholar" THEN ViewedInOrder(n)
                        ELSE ViewedInOrder(2)]

\* the history store of the mock backend, one addToHistory call at a time
SpecHistory == InitSpecHistory /\ [][NextHistory]_vars

(***************************************************************************)
(* Claims about the history.                                               *)
(***************************************************************************)
\* the position of the record of courseId in history h
PositionOf(h, courseId) == CHOOSE i \in DOMAIN h : h[i].courseId = courseId

\* the records of h that are not of courseId
OthersOf(h, courseId) == {i \in DOMAIN h : h[i].courseId # courseId}

\* C13: every user's history holds at most 30 records and at most one
\* record per course id; a call addToHistory(u, c, a) puts {c, a} first in
\* u's history, removes any former record of c, keeps the other records in
\* their order up to the cap of 30, and leaves the history of every other
\* user unchanged.
C13_HistoryCappedAndDeduplicated ==
    /\ [](\A name \in Usernames :
            LET h == getUserHistory(name)
            IN  /\ Len(h) <= HistoryCap
                /\ \A i, j \in DOMAIN h : h[i].courseId = h[j].courseId => i = j)
    /\ [][historyCalls' # historyCalls =>
            LET call == lastHistoryCall'
                old  == dbHistory[call.username]
                new  == dbHistory'[call.username]
                kept == Cardinality(OthersOf(old, call.courseId))
            IN  /\ \A name \in Usernames \ {call.username} :
                       dbHistory'[name] = dbHistory[name]
                /\ Len(new) = (IF kept + 1 > HistoryCap THEN HistoryCap ELSE kept + 1)
                /\ new[1] = [courseId |-> call.courseId, action |-> call.action]
                /\ \A i \in 2..Len(new) :
                       /\ new[i].courseId # call.courseId
                       /\ \E j \in DOMAIN old : old[j] = new[i]
                /\ \A i \in 2..(Len(new) - 1) :
                       PositionOf(old, new[i].courseId)
                           < PositionOf(old, new[i + 1].courseId)
                /\ \A j \in OthersOf(old, call.courseId) :
                       j <= Len(new) - 1 => \E i \in 2..Len(new) : new[i] = old[j]]_vars

\* a full history took a course it did not hold: the new record is first,
\* the oldest record was dropped and the history is full again
C13_Witness ==
    /\ historyCalls > 0
    /\ lastHistoryCall.username = "scholar"
    /\ lastHistoryCall.courseId = HistoryCourse(HistoryCap + 1)
    /\ Len(dbHistory["scholar"]) = HistoryCap
    /\ dbHistory["scholar"][1].courseId = HistoryCourse(HistoryCap + 1)
    /\ dbHistory["scholar"][HistoryCap].courseId = HistoryCourse(2)
    /\ \A i \in DOMAIN dbHistory["scholar"] :
           dbHistory["scholar"][i].courseId # HistoryCourse(1)

(***************************************************************************)
(* Claims about login and the session.                                     *)
(***************************************************************************)
\* a step in which loginUser returns
LoginReturns == authPc # "idle" /\ authPc' = "idle"

C14_WitnessRefused ==
    /\ loginResult = LoginNull
    /\ formData = [username |-> "scholar", password |-> "secret"]
    /\ authPc = "idle" /\ isLogin
    /\ "scholar" \in DOMAIN dbUsers
    /\ error = "Invalid credentials. The archives are silent."

\* a step in which loginUser returns a user and a token
LoginSucceeds == LoginReturns /\ loginResult'.kind = "session"

\* a step of handleLogout
LogoutStep == currentPage = "PROFILE" /\ currentPage' = "AUTH"

\* a step of updateUser
UpdateStep == authPc = "idle" /\ authPc' = "idle" /\ dbUsers' # dbUsers

\* C15: session lifecycle. After a successful loginUser(u) getCurrentUser
\* returns the record the users store holds for u, also after updateUser
\* changed that record and after the page was loaded anew; after logoutUser
\* getCurrentUser returns null, and it stays null until the next
\* successful loginUser.
C15_SessionLifecycle ==
    /\ [](IF user = Null
          THEN authPc = "idle" => getCurrentUser = NoUser
          ELSE /\ user \in DOMAIN dbUsers
               /\ getCurrentUser = dbUsers[user].user)
    /\ [][LoginSucceeds =>
            /\ getCurrentUser' # NoUser
            /\ getCurrentUser' = dbUsers'[formData.username].user]_vars
    /\ [][UpdateStep =>
            /\ getCurrentUser'.username = getCurrentUser.username
            /\ getCurrentUser' = dbUsers'[user].user
            /\ getCurrentUser' # getCurrentUser]_vars
    /\ [][LogoutStep => getCurrentUser # NoUser /\ getCurrentUser' = NoUser]_vars
    /\ [][(getCurrentUser = NoUser /\ ~LoginSucceeds) => getCurrentUser' = NoUser]_vars

\* scholar logged out and in again and changed the profile: getCurrentUser
\* returns the changed record
C15_Witness ==
    /\ user = "scholar"
    /\ currentPage = "PROFILE"
    /\ Cardinality(DOMAIN dbSessions) = 2
    /\ dbUsers["scholar"].user.bio = "new bio"
    /\ getCurrentUser = dbUsers["scholar"].user
    /\ formData = BlankForm

\* after a logout the sessions store still holds the token, and
\* getCurrentUser returns null
C15_WitnessLoggedOut ==
    /\ DOMAIN dbSessions # {}
    /\ sessionToken = NoToken
    /\ user = Null
    /\ getCurrentUser = NoUser

====
